---- MODULE Spec2Model ----
(***************************************************************************)
(* Model of the instruction builder of @discosea/kitchen                   *)
(* (src/src/instructionBuilder.js, with the helpers of src/src/types.ts    *)
(* and the constants of src/unnamed/part_000).                             *)
(*                                                                         *)
(* Every operation of the module is a call whose outcome depends on its    *)
(* arguments alone, so a state is one call: the operation, its arguments   *)
(* and what the call produced (an instruction, the null sentinel, or a     *)
(* thrown error).                                                          *)
(*                                                                         *)
(* JavaScript values are tagged records ([t |-> "string", s |-> ...]).     *)
(* A text string is the sequence of its code points; the base58 text of a  *)
(* 32-byte address is the address wrapped ([t |-> "string", b58 |-> key]): *)
(* base58 is the external address type's bijection between addresses and   *)
(* their canonical strings.  Integers are kept as a sign and little-endian *)
(* 16-bit limbs, so values around 2^64 are exact.                          *)
(***************************************************************************)
EXTENDS Integers, Sequences, FiniteSets, TLC

VARIABLES op, args, result

vars == <<op, args, result>>

-----------------------------------------------------------------------------
(* Bounds of the model.                                                    *)

\* Longest seed array drawn for a request.
MaxSeeds == 2

\* Most 16-bit limbs of an integer handed to encodeU64 (4 limbs are 64 bits).
MaxLimbs == 5

-----------------------------------------------------------------------------
(* JavaScript values.                                                      *)

Undefined == [t |-> "undefined"]

Null == [t |-> "null"]

Str(cps) == [t |-> "string", s |-> cps]

\* The base58 text of address k.
KeyStr(k) == [t |-> "string", b58 |-> k]

\* An integer number: sign and magnitude in little-endian 16-bit limbs, no
\* leading zero limb (zero is the empty magnitude).
Num(neg, mag) == [t |-> "number", neg |-> neg, mag |-> mag]

Arr(a) == [t |-> "array", a |-> a]

PubKey(bytes) == [t |-> "PublicKey", bytes |-> bytes]

Throw(name, message) == [kind |-> "throw", name |-> name, message |-> message]

IsThrow(r) == r.kind = "throw"

\* JavaScript truthiness (the operand of ! and &&).
Truthy(v) ==
  CASE v.t = "undefined" -> FALSE
    [] v.t = "null" -> FALSE
    [] v.t = "string" -> IF "s" \in DOMAIN v THEN v.s # <<>> ELSE TRUE
    [] v.t = "number" -> v.mag # <<>>
    [] OTHER -> TRUE

\* typeof v === "object" (null included, as in JavaScript).
TypeofObject(v) == v.t \in {"null", "object", "array", "PublicKey"}

Zeros(n) == [i \in 1..n |-> 0]

Take(s, n) == SubSeq(s, 1, n)

Min(a, b) == IF a <= b THEN a ELSE b

-----------------------------------------------------------------------------
(* Fixed identifiers.                                                      *)

PROGRAM_ID ==
  PubKey(<<175, 109, 165, 74, 185, 224, 97, 57, 179, 36, 203, 106, 176, 31,
           142, 192, 94, 230, 181, 49, 221, 248, 232, 65, 194, 33, 26, 74,
           113, 109, 179, 169>>)

FEE_ACCOUNT_PUBKEY ==
  PubKey(<<123, 43, 250, 138, 112, 109, 205, 232, 23, 240, 13, 234, 35, 162,
           211, 17, 246, 245, 253, 125, 0, 190, 75, 77, 37, 28, 212, 102,
           244, 201, 252, 114>>)

METADATA_PROGRAM_ID ==
  PubKey(<<11, 112, 101, 177, 227, 209, 124, 69, 56, 157, 82, 127, 107, 4,
           195, 205, 88, 184, 108, 115, 26, 160, 253, 181, 73, 182, 209, 188,
           3, 248, 41, 70>>)

\* SystemProgram.programId: 11111111111111111111111111111111.
SystemProgramId == PubKey(Zeros(32))

\* TokenkegQfeZyiNwAJbNbGKPFXCWuBvf9Ss623VQ5DA
TOKEN_PROGRAM_ID ==
  PubKey(<<6, 221, 246, 225, 215, 101, 161, 147, 217, 203, 225, 70, 206, 235,
           121, 172, 28, 180, 133, 237, 95, 91, 55, 145, 58, 140, 245, 133,
           126, 255, 0, 169>>)

\* SysvarRent111111111111111111111111111111111
SYSVAR_RENT_PUBKEY ==
  PubKey(<<6, 167, 213, 23, 25, 44, 92, 81, 33, 140, 201, 76, 61, 74, 241,
           127, 88, 218, 238, 8, 155, 161, 253, 68, 227, 219, 217, 138, 0, 0,
           0, 0>>)

\* "https://ipfs.io/ipfs/"
IPFS_GATEWAY ==
  Str(<<104, 116, 116, 112, 115, 58, 47, 47, 105, 112, 102, 115, 46, 105,
        111, 47, 105, 112, 102, 115, 47>>)

\* Buffer.from("metadata")
MetadataSeed == <<109, 101, 116, 97, 100, 97, 116, 97>>

-----------------------------------------------------------------------------
(* External primitives.                                                    *)

\* new PublicKey(value) for a string: the address of a base58 text of 32
\* bytes, an error for any other text.
NewPublicKey(value) ==
  IF value.t = "string" /\ "b58" \in DOMAIN value
  THEN [kind |-> "ok", value |-> value.b58]
  ELSE Throw("Error", "Invalid public key input")

\* createHash("sha256").update(data).digest(): the digest stands for its
\* preimage (deterministic and collision-free).
Sha256(data) == <<"sha256", data>>

\* PublicKey.findProgramAddressSync(seeds, programId): deterministic and
\* total; the address and the bump stand for the inputs they are found from.
FindProgramAddressSync(seeds, programId) ==
  [pda |-> PubKey(<<"pda", programId.bytes, seeds>>),
   bump |-> <<"bump", programId.bytes, seeds>>]

\* new TextEncoder().encode(str) and Buffer.from(str, "utf-8"): the UTF-8
\* bytes of a string of code points of the basic plane.
RECURSIVE Utf8(_)
Utf8(cps) ==
  IF cps = <<>> THEN <<>>
  ELSE LET c == Head(cps)
           b == IF c < 128 THEN <<c>>
                ELSE IF c < 2048 THEN <<192 + (c \div 64), 128 + (c % 64)>>
                ELSE <<224 + (c \div 4096), 128 + ((c \div 64) % 64),
                       128 + (c % 64)>>
       IN b \o Utf8(Tail(cps))

-----------------------------------------------------------------------------
(* Manual Borsh serialization helpers.                                     *)

\* buf.writeUInt32LE(value, 0) on a 4-byte buffer; value is a length here.
encodeU32(value) ==
  IF value < 0
  THEN Throw("RangeError", "The value of \"value\" is out of range")
  ELSE [kind |-> "ok",
        value |-> <<value % 256, (value \div 256) % 256,
                    (value \div 65536) % 256, (value \div 16777216) % 256>>]

\* The i-th byte (from 0) of a magnitude held in 16-bit limbs.
LimbByte(mag, i) ==
  LET k == (i \div 2) + 1
      limb == IF k <= Len(mag) THEN mag[k] ELSE 0
  IN IF i % 2 = 0 THEN limb % 256 ELSE limb \div 256

\* 0 <= value <= 2^64 - 1
InU64Range(value) == (~value.neg \/ value.mag = <<>>) /\ Len(value.mag) <= 4

encodeU64BigEndian(value) ==
  IF ~InU64Range(value)
  THEN Throw("RangeError", "The value of \"value\" is out of range")
  ELSE [kind |-> "ok", value |-> [i \in 1..8 |-> LimbByte(value.mag, 8 - i)]]

encodeU64Unguarded(value) ==
  [kind |-> "ok", value |-> [i \in 1..8 |-> LimbByte(value.mag, i - 1)]]

\* buf.writeBigUInt64LE(BigInt(value), 0) on an 8-byte buffer.
encodeU64(value) ==
  IF ~InU64Range(value)
  THEN Throw("RangeError", "The value of \"value\" is out of range")
  ELSE [kind |-> "ok", value |-> [i \in 1..8 |-> LimbByte(value.mag, i - 1)]]

encodeString(str) ==
  LET strBuffer == Utf8(str.s)
      lenBuffer == encodeU32(Len(strBuffer))
  IN lenBuffer.value \o strBuffer

-----------------------------------------------------------------------------
(* Request validation.                                                     *)

requiredFields == <<"pda", "seeds", "salt", "metadataCid", "name", "symbol">>

MissingField(field) ==
  CASE field = "pda" -> "Invalid cookedData: Missing required field 'pda'."
    [] field = "seeds" -> "Invalid cookedData: Missing required field 'seeds'."
    [] field = "salt" -> "Invalid cookedData: Missing required field 'salt'."
    [] field = "metadataCid" ->
         "Invalid cookedData: Missing required field 'metadataCid'."
    [] field = "name" -> "Invalid cookedData: Missing required field 'name'."
    [] field = "symbol" ->
         "Invalid cookedData: Missing required field 'symbol'."

\* The fields of requiredFields, in order, that fail the test !cookedData[field].
FalsyFields(cookedData) ==
  SelectSeq(requiredFields, LAMBDA f : ~Truthy(cookedData[f]))

\* (s) => s.mint && s.amount_u64 !== undefined
SeedComplete(s) == Truthy(s.mint) /\ s.amount_u64 # Undefined

\* The validation without the test of each seed.
validateCookedDataAnySeed(cookedData) ==
  IF ~Truthy(cookedData) \/ ~TypeofObject(cookedData)
  THEN Throw("Error", "Invalid cookedData: Input must be an object.")
  ELSE IF FalsyFields(cookedData) # <<>>
  THEN Throw("Error", MissingField(Head(FalsyFields(cookedData))))
  ELSE IF cookedData.seeds.t # "array"
  THEN Throw("Error", "Invalid cookedData: 'seeds' must be an array.")
  ELSE [kind |-> "ok", value |-> cookedData]

validateCookedData(cookedData) ==
  IF ~Truthy(cookedData) \/ ~TypeofObject(cookedData)
  THEN Throw("Error", "Invalid cookedData: Input must be an object.")
  ELSE IF FalsyFields(cookedData) # <<>>
  THEN Throw("Error", MissingField(Head(FalsyFields(cookedData))))
  ELSE IF cookedData.seeds.t # "array"
  THEN Throw("Error", "Invalid cookedData: 'seeds' must be an array.")
  ELSE IF \E i \in DOMAIN cookedData.seeds.a :
            ~SeedComplete(cookedData.seeds.a[i])
  THEN Throw("Error",
             "Invalid cookedData: Each seed must have 'mint' and 'amount_u64'.")
  ELSE [kind |-> "ok", value |-> cookedData]

-----------------------------------------------------------------------------
(* Pieces shared by the instruction builders.                              *)

AccountMeta(pubkey, isSigner, isWritable) ==
  [pubkey |-> pubkey, isSigner |-> isSigner, isWritable |-> isWritable]

\* for (const seed of seeds) accounts.push({pubkey: new PublicKey(seed.mint),
\* isSigner: false, isWritable: false}): the pushed entries, or the error of
\* the first mint that is no address.
RECURSIVE SeedAccounts(_)
SeedAccounts(seeds) ==
  IF seeds = <<>> THEN [kind |-> "ok", value |-> <<>>]
  ELSE LET seed == Head(seeds)
           key == NewPublicKey(seed.mint)
           rest == SeedAccounts(Tail(seeds))
       IN IF ~Truthy(seed.mint) THEN rest
          ELSE IF IsThrow(key) THEN key
          ELSE IF IsThrow(rest) THEN rest
          ELSE [kind |-> "ok",
                value |-> <<AccountMeta(key.value, FALSE, FALSE)>>
                            \o rest.value]

\* BigInt(v) for a number: integers convert, anything else throws.
ToBigInt(v) ==
  IF v.t = "number" THEN [kind |-> "ok", value |-> v]
  ELSE Throw("TypeError", "Cannot convert value to a BigInt")

\* seeds.map((s) => BigInt(s.amount_u64)), then amounts.map(encodeU64),
\* concatenated: the first conversion that throws ends the call.
RECURSIVE AmountsData(_)
AmountsData(seeds) ==
  IF \E i \in DOMAIN seeds : IsThrow(ToBigInt(seeds[i].amount_u64))
  THEN Throw("TypeError", "Cannot convert value to a BigInt")
  ELSE IF seeds = <<>> THEN [kind |-> "ok", value |-> <<>>]
  ELSE LET first == encodeU64(ToBigInt(Head(seeds).amount_u64).value)
           rest == AmountsData(Tail(seeds))
       IN IF IsThrow(first) THEN first
          ELSE IF IsThrow(rest) THEN rest
          ELSE [kind |-> "ok", value |-> first.value \o rest.value]

\* The copy bounded by the string's length in characters, not in bytes.
SaltBufferByCharacters(salt) ==
  LET saltBytes == Utf8(salt.s)
      n == Min(Min(Len(salt.s), 32), Len(saltBytes))
  IN Take(saltBytes, n) \o Zeros(32 - n)

\* saltBuffer = Buffer.alloc(32);
\* saltBytes.copy(saltBuffer, 0, 0, Math.min(saltBytes.length, 32))
SaltBuffer(salt) ==
  LET saltBytes == Utf8(salt.s)
      n == Min(Len(saltBytes), 32)
  IN Take(saltBytes, n) \o Zeros(32 - n)

\* The accounts every builder starts from.
FixedAccounts(feePayerPubkey, pdaPubkey, metadataPda) ==
  << AccountMeta(feePayerPubkey, TRUE, TRUE),
     AccountMeta(FEE_ACCOUNT_PUBKEY, FALSE, FALSE),
     AccountMeta(pdaPubkey, FALSE, TRUE),
     AccountMeta(metadataPda, FALSE, TRUE),
     AccountMeta(SystemProgramId, FALSE, FALSE),
     AccountMeta(TOKEN_PROGRAM_ID, FALSE, FALSE),
     AccountMeta(SYSVAR_RENT_PUBKEY, FALSE, FALSE),
     AccountMeta(METADATA_PROGRAM_ID, FALSE, FALSE) >>

MetadataPda(pdaPubkey) ==
  FindProgramAddressSync(
    <<MetadataSeed, METADATA_PROGRAM_ID.bytes, pdaPubkey.bytes>>,
    METADATA_PROGRAM_ID).pda

TransactionInstruction(keys, programId, data) ==
  [kind |-> "instruction", keys |-> keys, programId |-> programId,
   data |-> data]

-----------------------------------------------------------------------------
(* createRecipe.                                                           *)

createRecipe(feePayerPubkey, cookedData) ==
  LET valid == validateCookedData(cookedData) IN
  IF IsThrow(valid) THEN valid
  ELSE
    LET pda == cookedData.pda
        seeds == cookedData.seeds.a
        salt == cookedData.salt
        name == cookedData.name
        symbol == cookedData.symbol
        uri == Str(IPFS_GATEWAY.s \o cookedData.metadataCid.s)
        pdaPubkey == NewPublicKey(pda)
        seedAccounts == SeedAccounts(seeds)
        amountsLen == encodeU32(Len(seeds))
        amountsData == AmountsData(seeds)
    IN IF IsThrow(pdaPubkey) THEN pdaPubkey
       ELSE IF IsThrow(seedAccounts) THEN seedAccounts
       ELSE IF IsThrow(amountsData) THEN amountsData
       ELSE TransactionInstruction(
              FixedAccounts(feePayerPubkey, pdaPubkey.value,
                            MetadataPda(pdaPubkey.value))
                \o seedAccounts.value,
              PROGRAM_ID,
              <<1>> \o amountsLen.value \o amountsData.value
                \o SaltBuffer(salt)
                \o encodeString(name) \o encodeString(symbol)
                \o encodeString(uri))

-----------------------------------------------------------------------------
(* findCookPDA.                                                            *)

findCookPDA(concatenatedData, salt) ==
  LET encodedSalt == Utf8(salt.s)
      n == Min(Len(encodedSalt), 32)
      saltBytes == Take(encodedSalt, n) \o Zeros(32 - n)
      concatenated == concatenatedData \o saltBytes
      sha256Hash == Sha256(concatenated)
      found == FindProgramAddressSync(<<sha256Hash>>, PROGRAM_ID)
  IN [pda |-> found.pda, bump |-> found.bump, sha256Hash |-> sha256Hash]

-----------------------------------------------------------------------------
(* cookRecipe.                                                             *)

\* Whether the identifier uri is declared where cookRecipe reads it: it is
\* declared in createRecipe alone, so the read throws a ReferenceError.
UriDeclaredInCookRecipe == FALSE

\* for (const tokenAccount of tokenAccounts) accounts.push(... writable)
RECURSIVE TokenAccountMetas(_)
TokenAccountMetas(tokenAccounts) ==
  IF tokenAccounts = <<>> THEN [kind |-> "ok", value |-> <<>>]
  ELSE LET ta == Head(tokenAccounts)
           key == NewPublicKey(ta.mint)
           rest == TokenAccountMetas(Tail(tokenAccounts))
       IN IF ~Truthy(ta.mint) THEN rest
          ELSE IF IsThrow(key) THEN key
          ELSE IF IsThrow(rest) THEN rest
          ELSE [kind |-> "ok",
                value |-> <<AccountMeta(key.value, FALSE, TRUE)>>
                            \o rest.value]

cookRecipe(feePayerPubkey, cookedData, tokenAccounts) ==
  LET valid == validateCookedData(cookedData) IN
  IF IsThrow(valid) THEN valid
  ELSE
    LET pda == cookedData.pda
        seeds == cookedData.seeds.a
        salt == cookedData.salt
        name == cookedData.name
        symbol == cookedData.symbol
        pdaPubkey == NewPublicKey(pda)
        seedAccounts == SeedAccounts(seeds)
        amountsLen == encodeU32(Len(seeds))
        amountsData == AmountsData(seeds)
        tokenMetas == TokenAccountMetas(tokenAccounts.a)
    IN IF Len(tokenAccounts.a) # 2 * Len(seeds) THEN [kind |-> "null"]
       ELSE IF IsThrow(pdaPubkey) THEN pdaPubkey
       ELSE IF IsThrow(seedAccounts) THEN seedAccounts
       ELSE IF IsThrow(amountsData) THEN amountsData
       ELSE IF ~UriDeclaredInCookRecipe
       THEN Throw("ReferenceError", "uri is not defined")
       ELSE IF IsThrow(tokenMetas) THEN tokenMetas
       ELSE TransactionInstruction(
              FixedAccounts(feePayerPubkey, pdaPubkey.value,
                            MetadataPda(pdaPubkey.value))
                \o seedAccounts.value \o tokenMetas.value,
              PROGRAM_ID,
              <<2>> \o amountsLen.value \o amountsData.value
                \o SaltBuffer(salt)
                \o encodeString(name) \o encodeString(symbol))

-----------------------------------------------------------------------------
(* The TypeScript variant of the builder (instructionBuilder.ts, with the  *)
(* encoders of types.ts).  The package's entry point is the JavaScript     *)
(* module above; this variant is kept beside it.                           *)

\* new BN(value) for a number: the sign is set aside, and a magnitude of
\* 2^53 or more fails BN's assertion.
BelowTwoTo53(mag) == Len(mag) <= 3 \/ (Len(mag) = 4 /\ mag[4] < 32)

\* new BN(value).toArrayLike(Buffer, "le", 8): the magnitude's bytes.
encodeU64_ts(value) ==
  IF ~BelowTwoTo53(value.mag) THEN Throw("Error", "Assertion failed")
  ELSE [kind |-> "ok", value |-> [i \in 1..8 |-> LimbByte(value.mag, i - 1)]]

\* seeds?.length, as the operand of !
SeedsLengthTruthy(seeds) ==
  CASE seeds.t = "array" -> seeds.a # <<>>
    [] seeds.t = "string" -> Truthy(seeds)
    [] OTHER -> FALSE

\* seeds.filter((s) => s.mint && s.amount_u64 !== undefined)
\*      .map((s) => s.amount_u64), each encoded and concatenated.
RECURSIVE AmountsData_ts(_)
AmountsData_ts(seeds) ==
  IF seeds = <<>> THEN [kind |-> "ok", value |-> <<>>]
  ELSE LET first == encodeU64_ts(Head(seeds).amount_u64)
           rest == AmountsData_ts(Tail(seeds))
       IN IF IsThrow(first) THEN first
          ELSE IF IsThrow(rest) THEN rest
          ELSE [kind |-> "ok", value |-> first.value \o rest.value]

\* Buffer.from(salt, "utf-8").copy(saltBuffer, 0, 0, Math.min(salt.length, 32))
SaltBuffer_ts(salt) ==
  LET saltBytes == Utf8(salt.s)
      n == Min(Min(Len(salt.s), 32), Len(saltBytes))
  IN Take(saltBytes, n) \o Zeros(32 - n)

createRecipe_ts(feePayer, cookedData) ==
  IF feePayer.t # "PublicKey"
  THEN Throw("Error", "Invalid feePayer: Must be a PublicKey instance.")
  ELSE IF ~Truthy(cookedData) THEN Throw("Error", "Cooked data is required.")
  ELSE IF \/ cookedData.t # "object"
          \/ ~Truthy(cookedData.pda)
          \/ ~SeedsLengthTruthy(cookedData.seeds)
          \/ ~Truthy(cookedData.metadataCid)
          \/ ~Truthy(cookedData.name)
          \/ ~Truthy(cookedData.symbol)
  THEN Throw("Error",
    "Invalid cooked data: Missing required fields (pda, seeds, metadataCid, name, or symbol).")
  ELSE
    LET seeds == cookedData.seeds.a
        salt == cookedData.salt
        uri == Str(IPFS_GATEWAY.s \o cookedData.metadataCid.s)
        pdaPubkey == NewPublicKey(cookedData.pda)
        seedAccounts == SeedAccounts(seeds)
        amounts == SelectSeq(seeds, SeedComplete)
        amountsLen == encodeU32(Len(amounts))
        amountsData == AmountsData_ts(amounts)
    IN IF IsThrow(pdaPubkey) THEN pdaPubkey
       ELSE IF cookedData.seeds.t # "array"
       THEN Throw("TypeError", "seeds.filter is not a function")
       ELSE IF IsThrow(seedAccounts) THEN seedAccounts
       ELSE IF IsThrow(amountsData) THEN amountsData
       ELSE IF salt.t # "string"
       THEN Throw("TypeError", "The first argument must be of type string")
       ELSE TransactionInstruction(
              FixedAccounts(feePayer, pdaPubkey.value,
                            MetadataPda(pdaPubkey.value))
                \o seedAccounts.value,
              PROGRAM_ID,
              <<1>> \o amountsLen.value \o amountsData.value
                \o SaltBuffer_ts(salt)
                \o encodeString(cookedData.name)
                \o encodeString(cookedData.symbol)
                \o encodeString(uri))

-----------------------------------------------------------------------------
(* Seed canonicalizer and address deriver.                                 *)

\* Lexicographic order of two byte sequences of one length.
LexLess(a, b) ==
  \E i \in DOMAIN a :
    /\ a[i] < b[i]
    /\ \A j \in 1..(i - 1) : a[j] = b[j]

MintBytes(seed) == seed.mint.b58.bytes

\* x put after every entry that does not come after it: ties keep their
\* input order.
RECURSIVE InsertSeed(_, _)
InsertSeed(sorted, x) ==
  IF sorted = <<>> THEN <<x>>
  ELSE IF LexLess(MintBytes(x), MintBytes(Head(sorted)))
  THEN <<x>> \o sorted
  ELSE <<Head(sorted)>> \o InsertSeed(Tail(sorted), x)

RECURSIVE SortFrom(_, _)
SortFrom(sorted, rest) ==
  IF rest = <<>> THEN sorted
  ELSE SortFrom(InsertSeed(sorted, Head(rest)), Tail(rest))

sortSeedsUnsorted(seeds) == seeds

\* Ascending by the raw bytes of the asset identifier, stable.
sortSeeds(seeds) == SortFrom(<<>>, seeds)

\* Each seed's 32-byte identifier followed by its quantity, 8 bytes
\* little-endian.
RECURSIVE SeedBytes(_)
SeedBytes(seeds) ==
  IF seeds = <<>> THEN <<>>
  ELSE MintBytes(Head(seeds)) \o encodeU64(Head(seeds).amount_u64).value
         \o SeedBytes(Tail(seeds))

deriveAddress(seeds, salt) == findCookPDA(SeedBytes(sortSeeds(seeds)), salt)

-----------------------------------------------------------------------------
(* The arguments the calls are made with.                                  *)

\* 4PYfccDjZpjthkDkKPGQHEZXtSooRwgHCQJTig4myc7x
PayerKey ==
  PubKey(<<50, 89, 164, 166, 110, 41, 246, 103, 239, 131, 180, 41, 240, 48,
           122, 132, 3, 106, 95, 133, 78, 152, 163, 31, 45, 192, 182, 67, 46,
           141, 208, 31>>)

\* 2ELzNwTHL5r7kttWF5iNvhEXBF8P64LtNqoQ334t9Zn6
PdaKey ==
  PubKey(<<18, 70, 214, 226, 161, 38, 207, 106, 219, 171, 197, 100, 106, 235,
           33, 230, 58, 196, 69, 218, 240, 110, 103, 180, 47, 143, 195, 100,
           154, 196, 247, 135>>)

\* 4o5wmhvHtF8JuauJgrzWpR6dyCNQJn9MYwCHNUhBXxve
MintA ==
  PubKey(<<56, 97, 94, 90, 9, 16, 5, 93, 189, 65, 46, 153, 172, 223, 71, 230,
           128, 9, 212, 166, 192, 236, 217, 254, 7, 96, 103, 223, 108, 120,
           22, 115>>)

\* So11111111111111111111111111111111111111112
MintB ==
  PubKey(<<6, 155, 136, 87, 254, 171, 129, 132, 251, 104, 127, 99, 70, 24,
           192, 53, 218, 196, 57, 220, 26, 235, 59, 85, 152, 160, 240, 0, 0,
           0, 0, 1>>)

\* EPjFWdd5AufqSSqeM2qN1xzybapC8G4wEGGkZwyTDt1v
MintC ==
  PubKey(<<198, 250, 122, 243, 190, 219, 173, 58, 61, 101, 243, 106, 171,
           201, 116, 49, 177, 187, 228, 194, 210, 246, 224, 228, 124, 166, 2,
           3, 69, 47, 93, 97>>)

\* "some-public-key", the payer and pda of the rejection tests
SomePublicKey ==
  Str(<<115, 111, 109, 101, 45, 112, 117, 98, 108, 105, 99, 45, 107, 101,
        121>>)

\* "mint1"
Mint1 == Str(<<109, 105, 110, 116, 49>>)

\* "not-an-array"
NotAnArray == Str(<<110, 111, 116, 45, 97, 110, 45, 97, 114, 114, 97, 121>>)

\* "random-salt"
RandomSalt == Str(<<114, 97, 110, 100, 111, 109, 45, 115, 97, 108, 116>>)

\* "some-metadata-cid"
SomeMetadataCid ==
  Str(<<115, 111, 109, 101, 45, 109, 101, 116, 97, 100, 97, 116, 97, 45, 99,
        105, 100>>)

\* "Test Recipe"
TestRecipe == Str(<<84, 101, 115, 116, 32, 82, 101, 99, 105, 112, 101>>)

\* "TST"
TST == Str(<<84, 83, 84>>)

EmptyString == Str(<<>>)

\* U+20AC, three bytes of UTF-8
EuroSign == Str(<<8364>>)

\* 33 letters a: one byte more than the salt field holds
LongSalt == Str([i \in 1..33 |-> 97])

\* 31 letters a and U+00E9, whose two bytes straddle the end of the field
StraddlingSalt == Str([i \in 1..32 |-> IF i < 32 THEN 97 ELSE 233])

\* 11 times U+20AC: 33 bytes of UTF-8, the last character cut after its
\* second byte
ManyEuros == Str([i \in 1..11 |-> 8364])

\* All the salts a call is made with.
Salts ==
  { EmptyString, RandomSalt, EuroSign, LongSalt, StraddlingSalt, ManyEuros }

\* 100, 2^64 - 1, 0, 2^64 and -1
Amount100 == Num(FALSE, <<100>>)

AmountMax == Num(FALSE, <<65535, 65535, 65535, 65535>>)

AmountZero == Num(FALSE, <<>>)

AmountOver == Num(FALSE, <<0, 0, 0, 0, 1>>)

AmountNegative == Num(TRUE, <<1>>)

Seed(mint, amount) == [t |-> "object", mint |-> mint, amount_u64 |-> amount]

CookedData(pda, seeds, salt, metadataCid, name, symbol) ==
  [t |-> "object", pda |-> pda, seeds |-> seeds, salt |-> salt,
   metadataCid |-> metadataCid, name |-> name, symbol |-> symbol]

\* Seeds with an address for identifier and a quantity in range.
WellFormedSeeds ==
  { Seed(KeyStr(MintA), Amount100), Seed(KeyStr(MintB), AmountMax),
    Seed(KeyStr(MintC), AmountZero), Seed(KeyStr(MintA), AmountMax) }

\* Seeds lacking a field, with a quantity out of range, or with an
\* identifier that is no address.
OtherSeeds ==
  { Seed(Undefined, Amount100), Seed(KeyStr(MintA), Undefined),
    Seed(KeyStr(MintA), AmountOver), Seed(KeyStr(MintB), AmountNegative),
    Seed(Mint1, Amount100) }

SeqsUpTo(S, n) == UNION { [1..k -> S] : k \in 0..n }

Payers == { PayerKey, SomePublicKey }

IsWellFormed(seeds) == \A i \in DOMAIN seeds : seeds[i] \in WellFormedSeeds

\* The pda a request is sent with: absent, the address of the valid-input
\* test, a text that is no address, or the canonical text of the address
\* derived from the request's seeds and salt.
PdaValues(seeds, salt) ==
  { Undefined, KeyStr(PdaKey), SomePublicKey }
    \cup IF seeds.t = "array" /\ IsWellFormed(seeds.a) /\ salt.t = "string"
         THEN { KeyStr(deriveAddress(seeds.a, salt).pda) }
         ELSE {}

\* Requests of every shape: each field absent, empty or set.
ShapeRequests ==
  { CookedData(pda, seeds, salt, cid, name, symbol) :
      pda \in { Undefined, KeyStr(PdaKey), SomePublicKey },
      seeds \in { Undefined, NotAnArray, Arr(<<>>),
                  Arr(<<Seed(KeyStr(MintA), Amount100)>>),
                  Arr(<<Seed(Mint1, Undefined)>>) },
      salt \in { Undefined, EmptyString, RandomSalt },
      cid \in { Undefined, EmptyString, SomeMetadataCid },
      name \in { Undefined, EmptyString, TestRecipe },
      symbol \in { Undefined, TST, EuroSign } }

\* Requests with every seed array, the other fields set.
SeedRequests ==
  UNION { { CookedData(pda, Arr(seeds), salt, SomeMetadataCid, TestRecipe,
                       TST) :
              pda \in PdaValues(Arr(seeds), salt) \ { Undefined } } :
          seeds \in SeqsUpTo(WellFormedSeeds \cup OtherSeeds, MaxSeeds),
          salt \in { RandomSalt } }

\* Requests with every salt, the other fields set.
SaltRequests ==
  { CookedData(KeyStr(PdaKey), Arr(<<Seed(KeyStr(MintA), Amount100)>>), salt,
               SomeMetadataCid, TestRecipe, TST) :
      salt \in Salts }

Requests ==
  { Null, Undefined, NotAnArray } \cup ShapeRequests \cup SeedRequests
    \cup SaltRequests

\* The seed bytes handed to findCookPDA: none, or one identifier and its
\* quantity.
ConcatenatedData == { <<>>, MintA.bytes \o encodeU64(Amount100).value }

\* n token accounts.
TokenAccounts(n) == Arr([i \in 1..n |-> [t |-> "object", mint |-> KeyStr(MintA)]])

\* Integers of up to MaxLimbs limbs, of either sign.
Limbs == { 0, 1, 4660, 65535 }

Integers64 ==
  { Num(neg, mag) :
      neg \in BOOLEAN,
      mag \in { m \in SeqsUpTo(Limbs, MaxLimbs) : m = <<>> \/ m[Len(m)] # 0 } }

IndexPermutations(n) ==
  { p \in [1..n -> 1..n] : \A i, j \in 1..n : p[i] = p[j] => i = j }

-----------------------------------------------------------------------------
(* The calls.  A call is made when no result is pending; its result is     *)
(* then handed to the caller, which is free to make the next call.         *)

Init ==
  /\ op = "none"
  /\ args = <<>>
  /\ result = [kind |-> "none"]

CallCreateRecipe ==
  /\ op = "none"
  /\ \E feePayerPubkey \in Payers, cookedData \in Requests :
    /\ op' = "createRecipe"
    /\ args' = [feePayerPubkey |-> feePayerPubkey, cookedData |-> cookedData]
    /\ result' = createRecipe(feePayerPubkey, cookedData)

CallCookRecipe ==
  /\ op = "none"
  /\ \E feePayerPubkey \in Payers, cookedData \in SeedRequests \cup { Null },
     n \in 0..(2 * MaxSeeds + 3) :
    /\ op' = "cookRecipe"
    /\ args' = [feePayerPubkey |-> feePayerPubkey, cookedData |-> cookedData,
                tokenAccounts |-> TokenAccounts(n)]
    /\ result' = cookRecipe(feePayerPubkey, cookedData, TokenAccounts(n))

CallEncodeU64 ==
  /\ op = "none"
  /\ \E value \in Integers64 :
    /\ op' = "encodeU64"
    /\ args' = [value |-> value]
    /\ result' = encodeU64(value)

CallCreateRecipeTs ==
  /\ op = "none"
  /\ \E feePayer \in Payers, cookedData \in Requests :
       /\ op' = "createRecipe_ts"
       /\ args' = [feePayerPubkey |-> feePayer, cookedData |-> cookedData]
       /\ result' = createRecipe_ts(feePayer, cookedData)

CallEncodeU64Ts ==
  /\ op = "none"
  /\ \E value \in Integers64 :
       /\ op' = "encodeU64_ts"
       /\ args' = [value |-> value]
       /\ result' = encodeU64_ts(value)

CallFindCookPDA ==
  /\ op = "none"
  /\ \E concatenatedData \in ConcatenatedData, salt \in Salts :
    /\ op' = "findCookPDA"
    /\ args' = [concatenatedData |-> concatenatedData, salt |-> salt]
    /\ result' = [kind |-> "found",
                  value |-> findCookPDA(concatenatedData, salt)]

\* One seed set derived twice: as given, and permuted.
CallDeriveAddress ==
  /\ op = "none"
  /\ \E seeds \in SeqsUpTo(WellFormedSeeds, MaxSeeds + 1),
     salt \in { EmptyString, RandomSalt, StraddlingSalt } :
    \E p \in IndexPermutations(Len(seeds)) :
      /\ op' = "deriveAddress"
      /\ args' = [seeds |-> seeds,
                  permuted |-> [i \in 1..Len(seeds) |-> seeds[p[i]]],
                  salt |-> salt]
      /\ result' = [kind |-> "derived",
                    value |-> deriveAddress(seeds, salt),
                    ofPermuted |->
                      deriveAddress([i \in 1..Len(seeds) |-> seeds[p[i]]],
                                    salt)]

\* The caller takes the outcome of the call.
Return ==
  /\ op # "none"
  /\ op' = "none"
  /\ args' = <<>>
  /\ result' = [kind |-> "none"]

Next ==
  \/ CallCreateRecipe
  \/ CallCookRecipe
  \/ CallEncodeU64
  \/ CallCreateRecipeTs
  \/ CallEncodeU64Ts
  \/ CallFindCookPDA
  \/ CallDeriveAddress
  \/ Return

Spec == Init /\ [][Next]_vars

-----------------------------------------------------------------------------
(* What the properties below read off a call.                              *)

\* The value of 4 bytes read as a little-endian unsigned integer.
U32Value(b) == b[1] + 256 * b[2] + 65536 * b[3] + 16777216 * b[4]

\* The four 16-bit limbs of 8 bytes read as a little-endian unsigned integer.
U64Limbs(b) == [k \in 1..4 |-> b[2 * k - 1] + 256 * b[2 * k]]

\* The four 16-bit limbs of a non-negative integer below 2^64.
LimbsOf(v) == [k \in 1..4 |-> IF k <= Len(v.mag) THEN v.mag[k] ELSE 0]

\* 0 <= v <= 2^64 - 1, on the integer itself.
Representable(v) == (v.mag = <<>> \/ ~v.neg) /\ Len(v.mag) < 5

Created == op = "createRecipe" /\ result.kind = "instruction"

\* The request of a call is an object with every required field truthy, an
\* array for seeds and both fields on every seed.
Validated ==
  /\ op \in {"createRecipe", "cookRecipe"}
  /\ args.cookedData.t = "object"
  /\ \A i \in DOMAIN requiredFields : Truthy(args.cookedData[requiredFields[i]])
  /\ args.cookedData.seeds.t = "array"
  /\ \A i \in DOMAIN args.cookedData.seeds.a :
       /\ Truthy(args.cookedData.seeds.a[i].mint)
       /\ args.cookedData.seeds.a[i].amount_u64 # Undefined

\* The length-prefixed field of string s starts at offset at (from 1) of d.
StringAt(d, at, s) ==
  /\ Len(d) >= at + 3 + Len(Utf8(s))
  /\ U32Value(SubSeq(d, at, at + 3)) = Len(Utf8(s))
  /\ SubSeq(d, at + 4, at + 3 + Len(Utf8(s))) = Utf8(s)

-----------------------------------------------------------------------------
(* C1: the payload of the instruction createRecipe returns is the byte     *)
(* 0x01, the seed count as a little-endian u32, one little-endian u64      *)
(* quantity per seed in the request's seed order, 32 salt bytes, then the  *)
(* length-prefixed name, symbol and gateway-prefixed metadataCid, and      *)
(* nothing else.                                                           *)
C1_CreatePayload ==
  Created =>
    LET d == result.data
        cd == args.cookedData
        seeds == cd.seeds.a
        n == Len(seeds)
        nameAt == 1 + 4 + 8 * n + 32 + 1
        symbolAt == nameAt + 4 + Len(Utf8(cd.name.s))
        uriAt == symbolAt + 4 + Len(Utf8(cd.symbol.s))
        uri == IPFS_GATEWAY.s \o cd.metadataCid.s
    IN /\ d[1] = 1
       /\ U32Value(SubSeq(d, 2, 5)) = n
       /\ \A i \in 1..n :
            /\ Representable(seeds[i].amount_u64)
            /\ U64Limbs(SubSeq(d, 8 * i - 2, 8 * i + 5))
                 = LimbsOf(seeds[i].amount_u64)
       /\ StringAt(d, nameAt, cd.name.s)
       /\ StringAt(d, symbolAt, cd.symbol.s)
       /\ StringAt(d, uriAt, uri)
       /\ Len(d) = uriAt + 3 + Len(Utf8(uri))

\* An instruction built from two seeds of different quantities.
C1_Witness ==
  /\ Created
  /\ Len(args.cookedData.seeds.a) = 2
  /\ args.cookedData.seeds.a[1].amount_u64 = AmountMax
  /\ args.cookedData.seeds.a[2].amount_u64 = Amount100

-----------------------------------------------------------------------------
(* C2: the account list of the instruction createRecipe returns is payer   *)
(* (signer, writable), fee account (writable), config account (read-only), *)
(* derived address (writable), metadata address (writable), system         *)
(* program, token program, rent parameters, metadata program, then one     *)
(* read-only non-signer reference per seed; the payer is the only signer.  *)
C2_CreateAccounts ==
  Created =>
    LET keys == result.keys
        seeds == args.cookedData.seeds.a
        pdaPubkey == args.cookedData.pda.b58
    IN /\ Len(keys) = 9 + Len(seeds)
       /\ keys[1] = AccountMeta(args.feePayerPubkey, TRUE, TRUE)
       /\ keys[2] = AccountMeta(FEE_ACCOUNT_PUBKEY, FALSE, TRUE)
       /\ ~keys[3].isSigner /\ ~keys[3].isWritable
       /\ keys[4] = AccountMeta(pdaPubkey, FALSE, TRUE)
       /\ keys[5] = AccountMeta(MetadataPda(pdaPubkey), FALSE, TRUE)
       /\ keys[6].pubkey = SystemProgramId
       /\ keys[7].pubkey = TOKEN_PROGRAM_ID
       /\ keys[8].pubkey = SYSVAR_RENT_PUBKEY
       /\ keys[9].pubkey = METADATA_PROGRAM_ID
       /\ \A i \in 1..Len(seeds) :
            keys[9 + i] = AccountMeta(seeds[i].mint.b58, FALSE, FALSE)
       /\ \A i \in 2..Len(keys) : ~keys[i].isSigner

-----------------------------------------------------------------------------
(* C3: deriving the address from a permutation of a seed set yields the    *)
(* same address, bump and hash as deriving it from the seed set.           *)
C3_OrderIndependent ==
  op = "deriveAddress" => result.ofPermuted = result.value

\* No two seeds of the call share an asset identifier.
DistinctIdentifiers(seeds) ==
  \A i, j \in DOMAIN seeds : seeds[i].mint = seeds[j].mint => i = j

\* C3 as amended: the same, for seed sets whose asset identifiers are
\* pairwise distinct.
C3_OrderIndependentDistinct ==
  (op = "deriveAddress" /\ DistinctIdentifiers(args.seeds)) =>
    result.ofPermuted = result.value

\* Three seeds of distinct identifiers, given out of canonical order and
\* permuted.
C3_Witness ==
  /\ op = "deriveAddress"
  /\ Len(args.seeds) = 3
  /\ DistinctIdentifiers(args.seeds)
  /\ args.permuted # args.seeds
  /\ sortSeeds(args.seeds) # args.seeds
  /\ result.ofPermuted = result.value

-----------------------------------------------------------------------------
(* C4: the derived address in the account list of a built instruction is   *)
(* the address derived from the request's seeds and salt, whatever derived *)
(* address the caller supplied.                                            *)
C4_DerivedAddressIsDerived ==
  Created =>
    \E i \in DOMAIN result.keys :
      /\ result.keys[i].isWritable
      /\ result.keys[i].pubkey
           = deriveAddress(args.cookedData.seeds.a, args.cookedData.salt).pda

-----------------------------------------------------------------------------
(* C5: createRecipe rejects a malformed request with this precedence: a    *)
(* non-object; else the first required field, in declared order, that is   *)
(* missing (absent, or empty where the field must not be empty: every      *)
(* field but salt); else seeds that is no array; else a seed lacking mint  *)
(* or amount_u64.  The payer does not change the error.                    *)
MissingFields(cd) ==
  SelectSeq(requiredFields,
            LAMBDA f : IF f = "salt" THEN cd[f] = Undefined
                       ELSE ~Truthy(cd[f]))

C5_RejectionPrecedence ==
  op = "createRecipe" =>
    LET cd == args.cookedData IN
    IF cd.t # "object" THEN IsThrow(result)
    ELSE IF MissingFields(cd) # <<>>
    THEN result = Throw("Error", MissingField(Head(MissingFields(cd))))
    ELSE IF cd.seeds.t # "array"
    THEN result = Throw("Error", "Invalid cookedData: 'seeds' must be an array.")
    ELSE IF \E i \in DOMAIN cd.seeds.a :
              \/ ~Truthy(cd.seeds.a[i].mint)
              \/ cd.seeds.a[i].amount_u64 = Undefined
    THEN result = Throw("Error",
           "Invalid cookedData: Each seed must have 'mint' and 'amount_u64'.")
    ELSE TRUE

-----------------------------------------------------------------------------
(* C6: for a validated request with n seeds, cookRecipe returns the        *)
(* "insufficient accounts" sentinel exactly when tokenAccounts.length      *)
(* differs from 2*n + 2.                                                   *)
C6_InsufficientAccounts ==
  (op = "cookRecipe" /\ Validated) =>
    (result.kind = "null"
       <=> Len(args.tokenAccounts.a) # 2 * Len(args.cookedData.seeds.a) + 2)

-----------------------------------------------------------------------------
(* C7: for a validated request whose addresses and quantities are          *)
(* well-formed and a token-account list of the accepted length, cookRecipe *)
(* returns an instruction whose payload is the byte 0x02, the seed count,  *)
(* the quantities, the 32 salt bytes and an 8-byte trailer, nothing else.  *)
C7_CookPayload ==
  ( /\ op = "cookRecipe"
    /\ Validated
    /\ "b58" \in DOMAIN args.cookedData.pda
    /\ IsWellFormed(args.cookedData.seeds.a)
    /\ Len(args.tokenAccounts.a) = 2 * Len(args.cookedData.seeds.a) + 2 ) =>
    LET seeds == args.cookedData.seeds.a
        n == Len(seeds)
    IN /\ result.kind = "instruction"
       /\ result.data[1] = 2
       /\ U32Value(SubSeq(result.data, 2, 5)) = n
       /\ \A i \in 1..n :
            U64Limbs(SubSeq(result.data, 8 * i - 2, 8 * i + 5))
              = LimbsOf(seeds[i].amount_u64)
       /\ Len(result.data) = 1 + 4 + 8 * n + 32 + 8

-----------------------------------------------------------------------------
(* C8: validation fails on salt only when the salt key is absent; a        *)
(* request whose salt is the empty string and whose other fields are valid *)
(* yields an instruction whose 32 salt bytes are all zero.                 *)
C8_EmptySaltAccepted ==
  op = "createRecipe" =>
    LET cd == args.cookedData IN
    /\ result = Throw("Error", MissingField("salt")) => cd.salt = Undefined
    /\ ( /\ cd.t = "object"
         /\ cd.salt = EmptyString
         /\ cd.pda = KeyStr(PdaKey)
         /\ cd.seeds = Arr(<<Seed(KeyStr(MintA), Amount100)>>)
         /\ Truthy(cd.metadataCid) /\ Truthy(cd.name) /\ Truthy(cd.symbol) )
       => /\ result.kind = "instruction"
          /\ SubSeq(result.data, 14, 45) = Zeros(32)

-----------------------------------------------------------------------------
(* C9: a request accepted by validation has at least one seed and every    *)
(* seed has an asset identifier and a quantity; a request whose seeds is   *)
(* the empty array is rejected and no instruction of seed count 0 is       *)
(* built.                                                                  *)
C9_SeedsNonEmpty ==
  /\ Validated => Len(args.cookedData.seeds.a) >= 1
  /\ ( /\ op = "createRecipe"
       /\ args.cookedData.t = "object"
       /\ args.cookedData.seeds = Arr(<<>>) ) => IsThrow(result)
  /\ Created => U32Value(SubSeq(result.data, 2, 5)) # 0

-----------------------------------------------------------------------------
(* C10: encodeU64 returns the 8 bytes of the value in little-endian order  *)
(* for every integer from 0 to 2^64 - 1 and fails for every negative value *)
(* and every value above 2^64 - 1; createRecipe raises when a seed         *)
(* quantity is out of that range.                                          *)
C10_EncodeU64 ==
  /\ op = "encodeU64" =>
       IF Representable(args.value)
       THEN /\ result.kind = "ok"
            /\ Len(result.value) = 8
            /\ \A i \in 1..8 : result.value[i] \in 0..255
            /\ U64Limbs(result.value) = LimbsOf(args.value)
       ELSE IsThrow(result)
  /\ ( /\ op = "createRecipe"
       /\ Validated
       /\ \E i \in DOMAIN args.cookedData.seeds.a :
            ~Representable(args.cookedData.seeds.a[i].amount_u64) )
     => IsThrow(result)

\* The largest value, 2^64 - 1, is encoded as eight bytes of 255.
C10_Witness ==
  /\ op = "encodeU64"
  /\ args.value = AmountMax
  /\ result.kind = "ok"
  /\ result.value = [i \in 1..8 |-> 255]

-----------------------------------------------------------------------------
(* C11: for every salt string, multi-byte characters and strings longer    *)
(* than 32 bytes included, the salt field is exactly 32 bytes: the first   *)
(* min(32, byteLength) UTF-8 bytes of the string, then zero bytes; the     *)
(* encoding never throws; the field createRecipe writes to the payload and *)
(* the field findCookPDA hashes are this same value.                       *)

\* The 32 bytes the salt field of a string is to hold.
SaltField(salt) ==
  [i \in 1..32 |-> IF i <= Len(Utf8(salt.s)) THEN Utf8(salt.s)[i] ELSE 0]

\* The bytes that were hashed, read off the digest that stands for them.
Hashed(found) == found.sha256Hash[2]

\* The last 32 bytes of what findCookPDA hashed.
HashedSalt(found) ==
  SubSeq(Hashed(found), Len(Hashed(found)) - 31, Len(Hashed(found)))

\* The request of a createRecipe call passes validation, its pda and seed
\* identifiers are addresses and its quantities fit 64 bits: nothing before
\* the salt is encoded ends the call.
ReachesSalt ==
  /\ op = "createRecipe"
  /\ Validated
  /\ "b58" \in DOMAIN args.cookedData.pda
  /\ \A i \in DOMAIN args.cookedData.seeds.a :
       /\ "b58" \in DOMAIN args.cookedData.seeds.a[i].mint
       /\ Representable(args.cookedData.seeds.a[i].amount_u64)

C11_FixedSalt ==
  /\ ReachesSalt /\ args.cookedData.salt.t = "string" => Created
  /\ Created =>
       LET n == Len(args.cookedData.seeds.a)
           field == SubSeq(result.data, 6 + 8 * n, 37 + 8 * n)
       IN /\ Len(field) = 32
          /\ field = SaltField(args.cookedData.salt)
          /\ field = HashedSalt(findCookPDA(<<>>, args.cookedData.salt))
  /\ op = "findCookPDA" =>
       /\ result.kind = "found"
       /\ Len(Hashed(result.value)) = Len(args.concatenatedData) + 32
       /\ Take(Hashed(result.value), Len(args.concatenatedData))
            = args.concatenatedData
       /\ HashedSalt(result.value) = SaltField(args.salt)

\* An instruction built with a salt of 11 three-byte characters: 33 bytes,
\* cut inside the last character.
C11_Witness ==
  /\ Created
  /\ args.cookedData.salt = ManyEuros
  /\ SubSeq(result.data, 6 + 8, 37 + 8)
       = [i \in 1..32 |-> IF i % 3 = 1 THEN 226
                          ELSE IF i % 3 = 2 THEN 130 ELSE 172]

-----------------------------------------------------------------------------
(* C12: in every instruction createRecipe returns, the seed count of the   *)
(* payload, the number of quantities after it and the number of seed       *)
(* references after the fixed accounts all equal the number of seeds of    *)
(* the request, and the i-th quantity and the i-th seed reference belong   *)
(* to the i-th seed.                                                       *)

\* The accounts createRecipe lists before the seed references.
NumFixedAccounts == Len(FixedAccounts(PayerKey, PdaKey, MetadataPda(PdaKey)))

C12_SeedsAligned ==
  Created =>
    LET d == result.data
        cd == args.cookedData
        seeds == cd.seeds.a
        n == Len(seeds)
        strings == Len(encodeString(cd.name)) + Len(encodeString(cd.symbol))
                     + Len(encodeString(Str(IPFS_GATEWAY.s
                                              \o cd.metadataCid.s)))
    IN /\ U32Value(SubSeq(d, 2, 5)) = n
       /\ Len(d) = 1 + 4 + 8 * n + 32 + strings
       /\ Len(result.keys) = NumFixedAccounts + n
       /\ \A i \in 1..n :
            /\ result.keys[NumFixedAccounts + i].pubkey = seeds[i].mint.b58
            /\ U64Limbs(SubSeq(d, 8 * i - 2, 8 * i + 5))
                 = LimbsOf(seeds[i].amount_u64)

\* An instruction built from two seeds of different identifiers and
\* quantities: each reference sits at the index of its quantity.
C12_Witness ==
  /\ Created
  /\ args.cookedData.seeds
       = Arr(<<Seed(KeyStr(MintB), AmountMax), Seed(KeyStr(MintA), Amount100)>>)
  /\ Len(result.keys) = 10
  /\ result.keys[9].pubkey = MintB
  /\ result.keys[10].pubkey = MintA
  /\ SubSeq(result.data, 2, 21)
       = <<2, 0, 0, 0>> \o [i \in 1..8 |-> 255]
           \o <<100, 0, 0, 0, 0, 0, 0, 0>>

====
